---- MODULE Spec2Model ----
(***************************************************************************)
(* Model of tools/generate_car_catalog_variants.py: the slug function, the *)
(* per-brand model id uniqueness pass and the run of main over the file    *)
(* system (primary output root and its mirror).                            *)
(*                                                                         *)
(* A Python str is a sequence of characters; a character is a one-letter   *)
(* string, or the name of its code point ("U+00E9") when it is not ASCII.  *)
(***************************************************************************)
EXTENDS Integers, Sequences, FiniteSets, TLC

VARIABLES
    pc,               \* position of the program under study
    HAS_UNICODEDATA,  \* module flag set by the guarded import
    text,             \* argument of slug
    slugged,          \* slug(text)
    reslugged,        \* slug(slug(text))
    catalogModels,    \* brand_data['models'] of the brand being processed
    brandId,          \* brand_id of the brand being processed
    models,           \* list of model dicts handed to the uniqueness pass
    seen,             \* dict of the uniqueness pass
    result,           \* list built by the uniqueness pass
    input,            \* catalog read by the last run of main
    primary,          \* app/src/main/res/raw/car_catalog
    mirror,           \* web/public/car_catalog
    exitStatus        \* exit status of the last run of main

vars == <<pc, HAS_UNICODEDATA, text, slugged, reslugged, catalogModels,
          brandId, models, seen, result, input, primary, mirror, exitStatus>>

slugVars == <<text, slugged, reslugged>>
passVars == <<catalogModels, brandId, models, seen, result>>
mainVars == <<input, primary, mirror, exitStatus>>

\* ---------------------------------------------------------------- bounds
MaxLen == 3
MaxModels == 4
MaxBrands == 2

\* ------------------------------------------------------------ characters
LowerLetters == {"a","b","c","d","e","f","g","h","i","j","k","l","m",
                 "n","o","p","q","r","s","t","u","v","w","x","y","z"}
Digits == {"0","1","2","3","4","5","6","7","8","9"}

\* code points outside ASCII: e-acute, E-acute, combining acute accent,
\* Hebrew alef, double-struck capital C, no-break space
NonAscii == {"U+00E9", "U+00C9", "U+0301", "U+05D0", "U+2102", "U+00A0"}

UpperSeq == <<"A","B","C","D","E","F","G","H","I","J","K","L","M",
              "N","O","P","Q","R","S","T","U","V","W","X","Y","Z","U+00C9">>
LowerSeq == <<"a","b","c","d","e","f","g","h","i","j","k","l","m",
              "n","o","p","q","r","s","t","u","v","w","x","y","z","U+00E9">>

\* the lower case of the characters that have one
LowerTable ==
    [c \in {UpperSeq[i] : i \in 1..Len(UpperSeq)} |->
        LowerSeq[CHOOSE i \in 1..Len(UpperSeq) : UpperSeq[i] = c]]

\* str.lower on one character
LowerChar(c) == IF c \in DOMAIN LowerTable THEN LowerTable[c] ELSE c

Lower(s) == [i \in 1..Len(s) |-> LowerChar(s[i])]

\* characters str.strip() removes
Whitespace == {" ", "U+00A0"}

\* s.strip(chars): drop the leading and trailing characters that are in chars
StripChars(s, chars) ==
    LET keep == {i \in 1..Len(s) : s[i] \notin chars}
    IN  IF keep = {} THEN <<>>
        ELSE LET lo == CHOOSE i \in keep : \A j \in keep : i <= j
                 hi == CHOOSE i \in keep : \A j \in keep : j <= i
             IN  SubSeq(s, lo, hi)

\* NFKD decomposition of one character
NFKDChar(c) ==
    CASE c = "U+00E9" -> <<"e", "U+0301">>
      [] c = "U+00C9" -> <<"E", "U+0301">>
      [] c = "U+2102" -> <<"C">>
      [] c = "U+00A0" -> <<" ">>
      [] OTHER -> <<c>>

\* unicodedata.normalize('NFKD', s)
NFKD(s) ==
    LET f[i \in 0..Len(s)] == IF i = 0 THEN <<>> ELSE f[i-1] \o NFKDChar(s[i])
    IN  f[Len(s)]

\* s.encode('ascii', 'ignore').decode('ascii')
AsciiIgnore(s) == SelectSeq(s, LAMBDA c : c \notin NonAscii)

\* the class [a-z0-9]
SlugChars == LowerLetters \cup Digits

\* re.sub(r'[^a-z0-9]+', '-', s)
ReplaceNonAlnum(s) ==
    LET f[i \in 0..Len(s)] ==
            IF i = 0 THEN <<>>
            ELSE IF s[i] \in SlugChars THEN Append(f[i-1], s[i])
            ELSE IF i > 1 /\ s[i-1] \notin SlugChars THEN f[i-1]
            ELSE Append(f[i-1], "-")
    IN  f[Len(s)]

\* re.sub(r'-+', '-', s)
CollapseDashes(s) ==
    LET f[i \in 0..Len(s)] ==
            IF i = 0 THEN <<>>
            ELSE IF s[i] = "-" /\ i > 1 /\ s[i-1] = "-" THEN f[i-1]
            ELSE Append(f[i-1], s[i])
    IN  f[Len(s)]

Unknown == <<"u","n","k","n","o","w","n">>

\* slug with the trim of the dashes done before the replacement
slug_TrimFirst(t, has) ==
    LET t1 == StripChars(Lower(t), Whitespace)
        t2 == IF has THEN AsciiIgnore(NFKD(t1)) ELSE t1
        t3 == StripChars(t2, {"-"})
        t4 == CollapseDashes(ReplaceNonAlnum(t3))
    IN  IF t4 = <<>> THEN Unknown ELSE t4

\* slug without the fallback literal
slug_NoFallback(t, has) ==
    LET t1 == StripChars(Lower(t), Whitespace)
        t2 == IF has THEN AsciiIgnore(NFKD(t1)) ELSE t1
        t3 == ReplaceNonAlnum(t2)
        t4 == CollapseDashes(t3)
    IN  StripChars(t4, {"-"})

\* slug(text) on a platform where HAS_UNICODEDATA = has
slug(t, has) ==
    LET t1 == StripChars(Lower(t), Whitespace)
        t2 == IF has THEN AsciiIgnore(NFKD(t1)) ELSE t1
        t3 == ReplaceNonAlnum(t2)
        t4 == CollapseDashes(t3)
        t5 == StripChars(t4, {"-"})
    IN  IF t5 = <<>> THEN Unknown ELSE t5

\* ------------------------------------------------------ inputs of slug
Alphabet == {"a", "A", "1", " ", "-", "!", "U+00E9", "U+00C9",
             "U+05D0", "U+2102", "U+00A0"}

RECURSIVE SeqsUpTo(_, _)
SeqsUpTo(S, n) ==
    IF n = 0 THEN {<<>>}
    ELSE LET shorter == SeqsUpTo(S, n - 1)
         IN  shorter \cup {Append(s, x) : s \in shorter, x \in S}

Texts == SeqsUpTo(Alphabet, MaxLen)

None == "None"

IdleSlug == text = None /\ slugged = None /\ reslugged = None
IdlePass == catalogModels = None /\ brandId = None /\ models = None
            /\ seen = None /\ result = None
IdleMain == input = None /\ primary = None /\ mirror = None
            /\ exitStatus = None

\* ------------------------------------------ slug applied once and twice
InitSlug ==
    /\ pc = "slug"
    /\ HAS_UNICODEDATA \in BOOLEAN
    /\ text \in Texts
    /\ slugged = None
    /\ reslugged = None
    /\ IdlePass
    /\ IdleMain

CallSlug ==
    /\ pc = "slug"
    /\ slugged' = slug(text, HAS_UNICODEDATA)
    /\ pc' = "reslug"
    /\ UNCHANGED <<HAS_UNICODEDATA, text, reslugged, passVars, mainVars>>

CallSlugAgain ==
    /\ pc = "reslug"
    /\ reslugged' = slug(slugged, HAS_UNICODEDATA)
    /\ pc' = "slugDone"
    /\ UNCHANGED <<HAS_UNICODEDATA, text, slugged, passVars, mainVars>>

NextSlug == CallSlug \/ CallSlugAgain

SpecSlug == InitSlug /\ [][NextSlug]_vars

\* a character that slug removes or turns into '-'
RemovedOrDashed(c, has) ==
    LET l == LowerChar(c)
        d == NFKDChar(l)
    IN  IF has
        THEN \A i \in 1..Len(d) : d[i] \in NonAscii \/ d[i] \notin SlugChars
        ELSE l \notin SlugChars

OnlyFiller(t, has) == \A i \in 1..Len(t) : RemovedOrDashed(t[i], has)

\* C4: slug never returns the empty string, and a text that is empty,
\* whitespace only or made only of characters that are removed or turned
\* into '-' is slugged to 'unknown'.
C4_SlugNeverEmpty ==
    pc \in {"reslug", "slugDone"} =>
        /\ slugged # <<>>
        /\ OnlyFiller(text, HAS_UNICODEDATA) => slugged = Unknown

C4_Witness ==
    /\ pc = "reslug"
    /\ Len(text) = MaxLen
    /\ \E i \in 1..Len(text) : text[i] \in NonAscii
    /\ \E i \in 1..Len(text) : text[i] = "!"
    /\ OnlyFiller(text, HAS_UNICODEDATA)
    /\ slugged = Unknown

\* C5: slug is idempotent: slugging the slug of a text returns that slug.
C5_SlugIdempotent == pc = "slugDone" => reslugged = slugged

C5_Witness ==
    /\ pc = "slugDone"
    /\ text = <<"A", "!", "1">>
    /\ slugged = <<"a", "-", "1">>
    /\ reslugged = <<"a", "-", "1">>

\* C8: slug returns the same result whether or not Unicode normalization
\* is available: the slug computed with the flag of this platform is the
\* slug the other platform computes.
C8_SlugPlatformIndependent ==
    pc \in {"reslug", "slugDone"} => slugged = slug(text, ~HAS_UNICODEDATA)

\* ------------------------------------------------- ids and the pass
DigitSeq == <<"0","1","2","3","4","5","6","7","8","9">>

\* str(n) of a natural number, as the f-string formats the counter
RECURSIVE ToDecimal(_)
ToDecimal(n) ==
    IF n < 10 THEN <<DigitSeq[n + 1]>>
    ELSE Append(ToDecimal(n \div 10), DigitSeq[(n % 10) + 1])

generate_brand_id(brand_en, has) == slug(brand_en, has)

generate_model_id(brand_id, model_en, has) ==
    brand_id \o <<":">> \o slug(model_en, has)

\* f"{original_id}-{counter}"
Suffixed(original_id, counter) == original_id \o <<"-">> \o ToDecimal(counter)

\* first suffix tried, one too far
FirstCounter_SkipOne(seenD, original_id) == seenD[original_id] + 2

\* counter = seen[model_id] + 1
FirstCounter(seenD, original_id) == seenD[original_id] + 1

\* the first suffix tried is taken without looking it up
Probe_NoLoop(seenD, original_id, counter) == counter

\* the while loop: the first counter from the given one whose suffixed id
\* is not a key of seen
RECURSIVE Probe(_, _, _)
Probe(seenD, original_id, counter) ==
    IF Suffixed(original_id, counter) \in DOMAIN seenD
    THEN Probe(seenD, original_id, counter + 1)
    ELSE counter

\* the id computed for a duplicate is not stored in the model
Renamed_KeepOriginal(model, model_id) == model

\* model['modelId'] = model_id
Renamed(model, model_id) == [model EXCEPT !.modelId = model_id]

\* the model is put in front of the result
Appended_InFront(res, model) == <<model>> \o res

\* result.append(model)
Appended(res, model) == Append(res, model)

\* one iteration of the loop over models: the dict seen and the model
\* after the iteration
UniqueIter(seenD, model) ==
    LET original_id == model.modelId
        dup == original_id \in DOMAIN seenD
        counter == Probe(seenD, original_id, FirstCounter(seenD, original_id))
        model_id == IF dup THEN Suffixed(original_id, counter) ELSE original_id
        seen1 == IF dup THEN [seenD EXCEPT ![original_id] = counter]
                 ELSE seenD @@ (original_id :> 0)
        seen2 == IF model_id \in DOMAIN seen1 THEN seen1
                 ELSE seen1 @@ (model_id :> 0)
    IN  [seen |-> seen2, model |-> Renamed(model, model_id)]

\* the state of the pass after the first n models
RECURSIVE PassAfter(_, _)
PassAfter(ms, n) ==
    IF n = 0 THEN [seen |-> <<>>, result |-> <<>>]
    ELSE LET before == PassAfter(ms, n - 1)
             iter == UniqueIter(before.seen, ms[n])
         IN  [seen |-> iter.seen, result |-> Appended(before.result, iter.model)]

ensure_unique_model_ids(ms) == PassAfter(ms, Len(ms)).result

\* the list main builds from brand_data['models'] before the pass
BuiltModels(brand_id, model_datas, has) ==
    [i \in 1..Len(model_datas) |->
        [modelId |-> generate_model_id(brand_id, model_datas[i].modelEn, has),
         modelEn |-> model_datas[i].modelEn,
         modelHe |-> model_datas[i].modelHe]]

\* ------------------------------------------- inputs of the pass
Alef == <<"U+05D0">>

ModelDatas ==
    {[modelEn |-> <<"G">>, modelHe |-> Alef],
     [modelEn |-> <<"g">>, modelHe |-> <<"G">>],
     [modelEn |-> <<"G", " ", "1">>, modelHe |-> Alef],
     [modelEn |-> <<"G", "-", "2">>, modelHe |-> Alef],
     [modelEn |-> <<"g", "!", "1", "-", "1">>, modelHe |-> Alef],
     [modelEn |-> <<"U+00C9">>, modelHe |-> Alef]}

PassBrandEns == {<<"V", "W">>, <<"U+05D0">>}

InitPass ==
    /\ pc = "build"
    /\ HAS_UNICODEDATA \in BOOLEAN
    /\ \E brand_en \in PassBrandEns :
           brandId = generate_brand_id(brand_en, HAS_UNICODEDATA)
    /\ catalogModels \in SeqsUpTo(ModelDatas, MaxModels)
    /\ models = None
    /\ seen = None
    /\ result = None
    /\ IdleSlug
    /\ IdleMain

\* main, lines 123-136 up to the call of the pass, and the entry of the pass
BuildModels ==
    /\ pc = "build"
    /\ models' = BuiltModels(brandId, catalogModels, HAS_UNICODEDATA)
    /\ seen' = <<>>
    /\ result' = <<>>
    /\ pc' = "pass"
    /\ UNCHANGED <<HAS_UNICODEDATA, catalogModels, brandId, slugVars, mainVars>>

\* one iteration of the loop; the dict of the model is shared by models and
\* result, so the new id shows in both
PassIter ==
    /\ pc = "pass"
    /\ Len(result) < Len(models)
    /\ LET i == Len(result) + 1
           iter == UniqueIter(seen, models[i])
       IN  /\ seen' = iter.seen
           /\ models' = [models EXCEPT ![i] = iter.model]
           /\ result' = Appended(result, iter.model)
    /\ UNCHANGED <<pc, HAS_UNICODEDATA, catalogModels, brandId, slugVars, mainVars>>

\* return result; main binds it to models
PassReturn ==
    /\ pc = "pass"
    /\ Len(result) = Len(models)
    /\ models' = result
    /\ pc' = "passDone"
    /\ UNCHANGED <<HAS_UNICODEDATA, catalogModels, brandId, seen, result,
                   slugVars, mainVars>>

NextPass == BuildModels \/ PassIter \/ PassReturn

SpecPass == InitPass /\ [][NextPass]_vars

\* the original candidate id of the model at position i of the brand
Candidate(i) ==
    generate_model_id(brandId, catalogModels[i].modelEn, HAS_UNICODEDATA)

\* the ids given to the models before position i
AssignedBefore(i) == {result[j].modelId : j \in 1..(i - 1)}

FirstOccurrence(i) == \A j \in 1..(i - 1) : Candidate(j) # Candidate(i)

InPass == pc \in {"pass", "passDone"}

\* C1: the list the uniqueness pass returns (and every prefix of it it has
\* built) carries pairwise distinct modelId values.
C1_IdsDistinct ==
    InPass => \A i, j \in 1..Len(result) :
                  i # j => result[i].modelId # result[j].modelId

\* a finished pass over an input with two equal candidates and a third
\* candidate that looks like the first suffixed id
C1_Witness ==
    /\ pc = "passDone"
    /\ \E i, j, m \in 1..Len(result) :
          /\ i < j
          /\ Candidate(i) = Candidate(j)
          /\ Candidate(m) = Suffixed(Candidate(i), 1)

\* C2 as stated: a model keeps its candidate id exactly when it is the first
\* of the brand to carry that candidate, whatever precedes it.
C2_FirstOccurrenceKept ==
    pc = "passDone" =>
        \A i \in 1..Len(result) :
            (result[i].modelId = Candidate(i)) <=> FirstOccurrence(i)

\* C2 amended: a model keeps its candidate id exactly when that id was not
\* given to an earlier model of the brand (so a first occurrence keeps it
\* unless an earlier model was suffixed to that very id); every other model
\* gets its candidate id followed by a numeric suffix.
C2_KeptUnlessAssigned ==
    InPass =>
        \A i \in 1..Len(result) :
            /\ (result[i].modelId = Candidate(i))
                   <=> (Candidate(i) \notin AssignedBefore(i))
            /\ (result[i].modelId # Candidate(i))
                   => \E k \in 1..i :
                          result[i].modelId = Suffixed(Candidate(i), k)

\* a finished pass where one first occurrence after the first position was
\* kept and another one was suffixed
C2_Witness ==
    /\ pc = "passDone"
    /\ \E i \in 2..Len(result) :
          FirstOccurrence(i) /\ result[i].modelId = Candidate(i)
    /\ \E i \in 2..Len(result) :
          FirstOccurrence(i) /\ result[i].modelId # Candidate(i)

\* C6: the pass changes only modelId: the output has the length of the
\* input and position i carries the modelEn and modelHe of input position i.
C6_OnlyIdsChange ==
    /\ InPass =>
          /\ Len(result) <= Len(catalogModels)
          /\ Len(models) = Len(catalogModels)
          /\ \A i \in 1..Len(result) :
                /\ result[i].modelEn = catalogModels[i].modelEn
                /\ result[i].modelHe = catalogModels[i].modelHe
                /\ DOMAIN result[i] = {"modelId", "modelEn", "modelHe"}
    /\ pc = "passDone" =>
          /\ Len(result) = Len(catalogModels)
          /\ models = result

\* a finished pass that renamed a model and whose models differ in modelEn
C6_Witness ==
    /\ pc = "passDone"
    /\ Len(result) = MaxModels
    /\ \E i \in 1..Len(result) : result[i].modelId # Candidate(i)
    /\ \E i, j \in 1..Len(result) : result[i].modelEn # result[j].modelEn

\* C10: a model whose original id is already assigned in the brand gets
\* original-k for the least k >= 1 whose id is not assigned yet, whatever
\* original the assigned ids came from; the remembered counter of an id
\* only covers suffixes that are taken.
C10_LeastFreeSuffix ==
    InPass =>
        /\ \A i \in 1..Len(result) :
              Candidate(i) \in AssignedBefore(i) =>
                  \E k \in 1..i :
                      /\ result[i].modelId = Suffixed(Candidate(i), k)
                      /\ Suffixed(Candidate(i), k) \notin AssignedBefore(i)
                      /\ \A m \in 1..(k - 1) :
                            Suffixed(Candidate(i), m) \in AssignedBefore(i)
        /\ DOMAIN seen = {result[j].modelId : j \in 1..Len(result)}
        /\ \A id \in DOMAIN seen :
              \A m \in 1..seen[id] : Suffixed(id, m) \in DOMAIN seen

\* a finished pass where a duplicate got suffix 2 on its first collision
\* because suffix 1 was the id of another original, and a later duplicate
\* resumed from the remembered counter
C10_Witness ==
    /\ pc = "passDone"
    /\ \E i, j, m \in 1..Len(result) :
          /\ j < i /\ i < m
          /\ Candidate(j) = Suffixed(Candidate(i), 1)
          /\ result[j].modelId = Candidate(j)
          /\ result[i].modelId = Suffixed(Candidate(i), 2)
          /\ Candidate(m) = Candidate(i)
          /\ result[m].modelId = Suffixed(Candidate(i), 3)

\* ------------------------------------------------------- run of main
\* An output root is the set of its directories and a map from the path of
\* each file, relative to the root, to the JSON value it holds.
OutputBase == "car_catalog"
BrandsDir == "car_catalog/brands"

BrandsOnlyFile == <<"brands_only.v1.json">>
ManifestFile == <<"brand_manifest.v1.json">>

\* brands_dir / f"{brand_id}.models.v1.json"
ModelsFile(brand_id) == <<"brands", <<brand_id, ".models.v1.json">>>>

\* f"car_catalog/brands/{brand_id}.models.v1.json"
ModelsRef(brand_id) == <<"car_catalog/brands/", brand_id, ".models.v1.json">>

\* an output root with no directory and no file
EmptyRoot == [dirs |-> {}, files |-> <<>>]

\* open(path, 'w') and json.dump: the file is created or replaced
WriteFile(files, name, data) ==
    [n \in DOMAIN files \cup {name} |-> IF n = name THEN data ELSE files[n]]

\* brands_dir.glob("*.models.v1.json")
GlobModels(files) ==
    {n \in DOMAIN files :
        Len(n) = 2 /\ n[1] = "brands" /\ n[2][2] = ".models.v1.json"}

\* the copy of brands_only, of the manifest and of every file of the glob
CopyToMirror(src, dst) ==
    LET names == {BrandsOnlyFile, ManifestFile} \cup GlobModels(src)
    IN  [n \in DOMAIN dst \cup names |-> IF n \in names THEN src[n] ELSE dst[n]]

\* the body of the loop over the catalog for one brand_data: acc holds
\* brands_list, brand_manifest and the files of the primary root
ProcessBrand(acc, brand_data, generated_at, has) ==
    LET brand_id == generate_brand_id(brand_data.brandEn, has)
        ms == ensure_unique_model_ids(
                  BuiltModels(brand_id, brand_data.models, has))
    IN  [brands_list |-> Append(acc.brands_list,
                            [brandId |-> brand_id,
                             brandEn |-> brand_data.brandEn,
                             brandHe |-> brand_data.brandHe]),
         brand_manifest |-> Append(acc.brand_manifest,
                            [brandId |-> brand_id,
                             brandEn |-> brand_data.brandEn,
                             brandHe |-> brand_data.brandHe,
                             modelsCount |-> Len(ms),
                             modelsRef |-> ModelsRef(brand_id)]),
         files |-> WriteFile(acc.files, ModelsFile(brand_id),
                            [version |-> 1,
                             brandId |-> brand_id,
                             brandEn |-> brand_data.brandEn,
                             brandHe |-> brand_data.brandHe,
                             generatedAt |-> generated_at,
                             models |-> ms])]

\* the loop over the first n brands of the catalog
RECURSIVE ProcessBrands(_, _, _, _, _)
ProcessBrands(catalog, n, files, generated_at, has) ==
    IF n = 0 THEN [brands_list |-> <<>>, brand_manifest |-> <<>>, files |-> files]
    ELSE ProcessBrand(ProcessBrands(catalog, n - 1, files, generated_at, has),
                      catalog[n], generated_at, has)

\* ------------------------------------------------- inputs of main
TwoModels ==
    <<[modelEn |-> <<"G">>, modelHe |-> Alef],
      [modelEn |-> <<"g">>, modelHe |-> Alef]>>

BrandDatas ==
    {[brandEn |-> <<"V", "W">>, brandHe |-> Alef, models |-> TwoModels],
     [brandEn |-> <<"v", "w", "!">>, brandHe |-> Alef, models |-> <<>>],
     [brandEn |-> <<"K", "i", "a">>, brandHe |-> Alef, models |-> <<>>],
     [brandEn |-> <<"K", "i", "a">>, brandHe |-> <<"K">>, models |-> TwoModels]}

Catalogs == SeqsUpTo(BrandDatas, MaxBrands)

\* datetime.now().strftime("%Y-%m-%d")
Dates == {"2025-01-01"}

\* input holds the catalog the last run read, or nothing
Missing == <<>>
ReadFrom(catalog) == <<catalog>>

\* no run yet, on a tree with no output
InitMain ==
    /\ pc = "main"
    /\ HAS_UNICODEDATA \in BOOLEAN
    /\ input = Missing
    /\ primary = EmptyRoot
    /\ mirror = EmptyRoot
    /\ exitStatus = 0
    /\ IdleSlug
    /\ IdlePass

\* main from json.load on: the loop over the brands, the three kinds of
\* file written under the primary root, the copy to the mirror
RunToEnd(catalog, generated_at) ==
    LET done == ProcessBrands(catalog, Len(catalog), primary.files,
                              generated_at, HAS_UNICODEDATA)
        brands_only_data == [version |-> 1, generatedAt |-> generated_at,
                             brands |-> done.brands_list]
        manifest_data == [version |-> 1, generatedAt |-> generated_at,
                          brands |-> done.brand_manifest]
        written == WriteFile(WriteFile(done.files, BrandsOnlyFile, brands_only_data),
                             ManifestFile, manifest_data)
    IN  /\ primary' = [dirs |-> primary.dirs \cup {OutputBase, BrandsDir},
                       files |-> written]
        /\ mirror' = [dirs |-> mirror.dirs \cup {OutputBase, BrandsDir},
                      files |-> CopyToMirror(written, mirror.files)]
        /\ exitStatus' = 0
        /\ pc' = "exited"
        /\ UNCHANGED <<HAS_UNICODEDATA, slugVars, passVars>>

\* a run of main that finds the input file and reads the catalog from it
Main ==
    \E catalog \in Catalogs, generated_at \in Dates :
        /\ input' = ReadFrom(catalog)
        /\ RunToEnd(catalog, generated_at)

\* a missing input file read as an empty catalog
MainInputMissing_AsEmpty ==
    /\ input' = Missing
    /\ \E generated_at \in Dates : RunToEnd(<<>>, generated_at)

\* a run of main with no input file: the output directories are made, then
\* open raises FileNotFoundError and the interpreter exits with status 1
MainInputMissing ==
    /\ input' = Missing
    /\ primary' = [primary EXCEPT !.dirs = @ \cup {OutputBase, BrandsDir}]
    /\ exitStatus' = 1
    /\ pc' = "exited"
    /\ UNCHANGED <<HAS_UNICODEDATA, mirror, slugVars, passVars>>

Next == Main \/ MainInputMissing

Spec == InitMain /\ [][Next]_vars

\* a run has ended with status 0
Completed == pc = "exited" /\ exitStatus = 0

\* a run has ended on a missing input file
Aborted == pc = "exited" /\ input = Missing

\* C3: after a completed run every entry of the written manifest has its
\* models file <brandId>.models.v1.json, with exactly modelsCount models
\* and the brandId of the entry.
C3_ManifestMatchesFiles ==
    Completed =>
        \A i \in 1..Len(primary.files[ManifestFile].brands) :
            LET entry == primary.files[ManifestFile].brands[i]
                name == ModelsFile(entry.brandId)
            IN  /\ name \in DOMAIN primary.files
                /\ Len(primary.files[name].models) = entry.modelsCount
                /\ primary.files[name].brandId = entry.brandId

\* the models files of the brands of the catalog the last run read
InputBrandFiles ==
    {ModelsFile(generate_brand_id(input[1][i].brandEn, HAS_UNICODEDATA)) :
        i \in 1..Len(input[1])}

\* C9: after any sequence of completed runs the models files present under
\* the primary root and under the mirror are those of the brands of the
\* last input; no file of an earlier run for another brand remains.
C9_OnlyLastInputFiles ==
    Completed =>
        /\ GlobModels(primary.files) = InputBrandFiles
        /\ GlobModels(mirror.files) = InputBrandFiles

\* C7 as stated: a run that finds no input file exits with a non-zero
\* status and leaves both output roots as they were.
C7_AbortLeavesRootsUntouched ==
    [][Aborted' =>
          /\ exitStatus' # 0
          /\ primary' = primary
          /\ mirror' = mirror]_vars

\* C7 amended: a run that finds no input file exits with a non-zero status,
\* creates or changes no file under either root and leaves the mirror root
\* as it was; under the primary root it creates the directories car_catalog
\* and car_catalog/brands when they are absent, and nothing else.
C7_AbortWritesNoFile ==
    [][Aborted' =>
          /\ exitStatus' # 0
          /\ primary'.files = primary.files
          /\ primary'.dirs = primary.dirs \cup {OutputBase, BrandsDir}
          /\ mirror' = mirror]_vars

\* an aborted first run: only the two primary directories exist
C7_Witness ==
    /\ Aborted
    /\ exitStatus = 1
    /\ primary = [dirs |-> {OutputBase, BrandsDir}, files |-> <<>>]
    /\ mirror = EmptyRoot

====
